---- MODULE Spec2Model ----
(***************************************************************************)
(* Model of the osa_nif native module (native/osa_nif/src): the tokenizer  *)
(* entry point count_tokens with its lazily initialised, process-wide      *)
(* encoding table, and the text scorer calculate_weight / word_count.      *)
(*                                                                         *)
(* Spec      : concurrent calls of count_tokens from several threads.      *)
(* SpecText  : calculate_weight and word_count applied to input texts.     *)
(*                                                                         *)
(* Floating point values are kept exactly, in thousandths (0.5 is 500).    *)
(***************************************************************************)
EXTENDS Integers, Sequences, FiniteSets, TLC

VARIABLES
    \* ---- tokenizer.rs -------------------------------------------------
    bundleOk,     \* whether tiktoken_rs::cl100k_base() returns Ok in this build
    panicTexts,   \* the texts on which encode_ordinary panics in this build
    once,         \* state of the OnceLock ENCODING
    table,        \* value held by ENCODING
    alive,        \* the calling process has not been terminated
    pc,           \* per thread: position inside count_tokens
    arg,          \* per thread: the text argument of the current call
    ret,          \* per thread: value returned by the last finished call
    outcome,      \* per thread: how the current call ended
    initRuns,     \* number of times the get_or_init closure was entered
    built,        \* number of times a table was stored in ENCODING
    calls,        \* number of calls of count_tokens started
    returned,     \* per text: the set of values count_tokens returned for it
    sawPanic,     \* per thread: the current call began after a caught encode panic
    \* ---- text.rs ------------------------------------------------------
    text,         \* the input text (sequence of Unicode scalar values)
    tpc,          \* which scorer function was applied last
    rawSum,       \* calculate_weight: `result` before the clamp
    weight,       \* calculate_weight: returned value
    urgencyHit,   \* calculate_weight: urgency_regex().is_match(text)
    noiseHit,     \* calculate_weight: noise_regex().is_match(text)
    words         \* word_count: returned value

tokVars == <<bundleOk, panicTexts, once, table, alive, pc, arg, ret, outcome,
             initRuns, built, calls, returned, sawPanic>>
textVars == <<text, tpc, rawSum, weight, urgencyHit, noiseHit, words>>
vars == <<tokVars, textVars>>

(***************************************************************************)
(* Bounds of the model.                                                    *)
(***************************************************************************)
NumThreads == 2
MaxCalls == 4

Threads == 1..NumThreads

(***************************************************************************)
(* Tokenizer: the encoding and encode_ordinary of the tiktoken_rs crate.   *)
(* The crate is an external collaborator; it is modelled as byte-pair      *)
(* encoding over a small rank table: repeatedly merge the adjacent pair of *)
(* lowest rank (leftmost first) until no adjacent pair has a rank.         *)
(***************************************************************************)
Uninit == "uninit"

Cl100kBase ==
    (<< <<"a">>, <<"b">> >> :> 0) @@
    (<< <<"a", "b">>, <<"a">> >> :> 1) @@
    (<< <<"b">>, <<"b">> >> :> 2)

TokTexts == { <<>>, <<"a", "b", "a", "b">>, <<"b", "b", "b">> }

RECURSIVE BytePairMerge(_, _)
BytePairMerge(tbl, parts) ==
    LET ranked == { i \in 1..(Len(parts) - 1) :
                       <<parts[i], parts[i + 1]>> \in DOMAIN tbl }
        rank(i) == tbl[<<parts[i], parts[i + 1]>>]
    IN  IF ranked = {} THEN parts
        ELSE LET best == CHOOSE i \in ranked :
                            \A j \in ranked :
                               rank(i) < rank(j) \/ (rank(i) = rank(j) /\ i <= j)
                 merged == [k \in 1..(Len(parts) - 1) |->
                               IF k < best THEN parts[k]
                               ELSE IF k = best THEN parts[k] \o parts[k + 1]
                               ELSE parts[k + 1]]
             IN  BytePairMerge(tbl, merged)

EncodeOrdinaryLen(tbl, s) ==
    Len(BytePairMerge(tbl, [i \in 1..Len(s) |-> <<s[i]>>]))

(***************************************************************************)
(* Tokenizer: count_tokens and get_encoding.                               *)
(***************************************************************************)
TokInit ==
    /\ bundleOk \in BOOLEAN
    /\ panicTexts \in SUBSET TokTexts
    /\ once = "incomplete"
    /\ table = Uninit
    /\ alive = TRUE
    /\ pc = [t \in Threads |-> "idle"]
    /\ arg = [t \in Threads |-> <<>>]
    /\ ret = [t \in Threads |-> 0]
    /\ outcome = [t \in Threads |-> "none"]
    /\ initRuns = 0
    /\ built = 0
    /\ calls = 0
    /\ returned = [s \in TokTexts |-> {}]
    /\ sawPanic = [t \in Threads |-> FALSE]

\* The host calls count_tokens(s) on thread t.
Call(t, s) ==
    /\ alive
    /\ pc[t] = "idle"
    /\ calls < MaxCalls
    /\ pc' = [pc EXCEPT ![t] = "get"]
    /\ arg' = [arg EXCEPT ![t] = s]
    /\ outcome' = [outcome EXCEPT ![t] = "none"]
    /\ calls' = calls + 1
    /\ sawPanic' = [sawPanic EXCEPT ![t] =
                        \E u \in Threads : pc[u] = "idle" /\ outcome[u] = "encodePanic"]
    /\ UNCHANGED <<bundleOk, panicTexts, once, table, alive, ret, initRuns,
                   built, returned>>

\* A call that goes on without waiting while another thread initialises.
GetEncoding_NoWait(t) ==
    /\ alive
    /\ pc[t] = "get"
    /\ \/ /\ once = "complete"
          /\ pc' = [pc EXCEPT ![t] = "encode"]
          /\ UNCHANGED <<once, initRuns, ret, outcome>>
       \/ /\ once = "incomplete"
          /\ once' = "running"
          /\ initRuns' = initRuns + 1
          /\ pc' = [pc EXCEPT ![t] = "init"]
          /\ UNCHANGED <<ret, outcome>>
       \/ /\ once = "running"
          /\ pc' = [pc EXCEPT ![t] = "done"]
          /\ ret' = [ret EXCEPT ![t] = 0]
          /\ outcome' = [outcome EXCEPT ![t] = "initPanic"]
          /\ UNCHANGED <<once, initRuns>>
    /\ UNCHANGED <<bundleOk, panicTexts, table, alive, arg, built, calls,
                   returned, sawPanic>>

\* An initialisation that is not guarded: every thread that finds the cell
\* empty runs the closure, also while another thread is running it.
GetEncoding_Racy(t) ==
    /\ alive
    /\ pc[t] = "get"
    /\ \/ /\ once = "complete"
          /\ pc' = [pc EXCEPT ![t] = "encode"]
          /\ UNCHANGED <<once, initRuns>>
       \/ /\ once # "complete"
          /\ initRuns < MaxCalls
          /\ once' = "running"
          /\ initRuns' = initRuns + 1
          /\ pc' = [pc EXCEPT ![t] = "init"]
    /\ UNCHANGED <<bundleOk, panicTexts, table, alive, arg, ret, outcome,
                   built, calls, returned, sawPanic>>

\* get_encoding: ENCODING.get_or_init(..).  A completed cell is read; an empty
\* cell is claimed by exactly one thread, which runs the closure; a thread that
\* finds the closure running blocks until it has finished.
GetEncoding(t) ==
    /\ alive
    /\ pc[t] = "get"
    /\ \/ /\ once = "complete"
          /\ pc' = [pc EXCEPT ![t] = "encode"]
          /\ UNCHANGED <<once, initRuns>>
       \/ /\ once = "incomplete"
          /\ once' = "running"
          /\ initRuns' = initRuns + 1
          /\ pc' = [pc EXCEPT ![t] = "init"]
    /\ UNCHANGED <<bundleOk, panicTexts, table, alive, arg, ret, outcome,
                   built, calls, returned, sawPanic>>

\* A panic that is not caught: it leaves count_tokens and takes the process down.
Propagate(t, kind) ==
    /\ alive' = FALSE
    /\ pc' = [pc EXCEPT ![t] = "unwound"]
    /\ outcome' = [outcome EXCEPT ![t] = kind]
    /\ UNCHANGED ret

\* std::panic::catch_unwind(..) yields Err(_), and count_tokens returns 0.
CatchUnwind(t, kind) ==
    /\ pc' = [pc EXCEPT ![t] = "done"]
    /\ ret' = [ret EXCEPT ![t] = 0]
    /\ outcome' = [outcome EXCEPT ![t] = kind]
    /\ UNCHANGED alive

\* The get_or_init closure: cl100k_base().expect(..).  On Ok the table is stored
\* and the cell completes; on Err, expect panics, the cell stays empty and the
\* panic unwinds into the catch_unwind of count_tokens.
InitEncoding(t) ==
    /\ alive
    /\ pc[t] = "init"
    /\ \/ /\ bundleOk
          /\ table' = Cl100kBase
          /\ once' = "complete"
          /\ built' = built + 1
          /\ pc' = [pc EXCEPT ![t] = "encode"]
          /\ UNCHANGED <<alive, ret, outcome>>
       \/ /\ ~bundleOk
          /\ once' = "incomplete"
          /\ CatchUnwind(t, "initPanic")
          /\ UNCHANGED <<table, built>>
    /\ UNCHANGED <<bundleOk, panicTexts, arg, initRuns, calls, returned, sawPanic>>

\* encode_ordinary(text).len(), inside catch_unwind.
Encode(t) ==
    /\ alive
    /\ pc[t] = "encode"
    /\ \/ /\ arg[t] \in panicTexts
          /\ CatchUnwind(t, "encodePanic")
       \/ /\ arg[t] \notin panicTexts
          /\ pc' = [pc EXCEPT ![t] = "done"]
          /\ ret' = [ret EXCEPT ![t] = EncodeOrdinaryLen(table, arg[t])]
          /\ outcome' = [outcome EXCEPT ![t] = "ok"]
          /\ UNCHANGED alive
    /\ UNCHANGED <<bundleOk, panicTexts, once, table, arg, initRuns, built,
                   calls, returned, sawPanic>>

\* count_tokens hands its value back to the host.
Return(t) ==
    /\ alive
    /\ pc[t] = "done"
    /\ pc' = [pc EXCEPT ![t] = "idle"]
    /\ returned' = [returned EXCEPT ![arg[t]] = @ \cup {ret[t]}]
    /\ UNCHANGED <<bundleOk, panicTexts, once, table, alive, arg, ret, outcome,
                   initRuns, built, calls, sawPanic>>

(***************************************************************************)
(* Text scorer: characters.  A text is the sequence of its Unicode scalar  *)
(* values; a scalar value is written as a one-character string, or by name *)
(* when it is not ASCII:                                                   *)
(*   "TAB" U+0009, "LF" U+000A, "NBSP" U+00A0 (White_Space),               *)
(*   "ZWSP" U+200B (not White_Space, not a word character),                *)
(*   "e_acute" U+00E9, "E_acute" U+00C9, "dotless_i" U+0131,               *)
(*   "long_s" U+017F, "KELVIN" U+212A (letters).                           *)
(***************************************************************************)
LowerLetters == <<"a", "b", "c", "d", "e", "f", "g", "h", "i", "j", "k", "l", "m",
                  "n", "o", "p", "q", "r", "s", "t", "u", "v", "w", "x", "y", "z">>
UpperLetters == <<"A", "B", "C", "D", "E", "F", "G", "H", "I", "J", "K", "L", "M",
                  "N", "O", "P", "Q", "R", "S", "T", "U", "V", "W", "X", "Y", "Z">>
LowerSet == { LowerLetters[i] : i \in DOMAIN LowerLetters }
UpperSet == { UpperLetters[i] : i \in DOMAIN UpperLetters }
DigitSet == { "0", "1", "2", "3", "4", "5", "6", "7", "8", "9" }
LowerOf == [c \in UpperSet |->
               LowerLetters[CHOOSE i \in DOMAIN UpperLetters : UpperLetters[i] = c]]
UpperOf == [c \in LowerSet |->
               UpperLetters[CHOOSE i \in DOMAIN LowerLetters : LowerLetters[i] = c]]

\* Number of bytes of the UTF-8 encoding of a scalar value.
Utf8Width(c) ==
    IF c \in {"NBSP", "e_acute", "E_acute", "dotless_i", "long_s"} THEN 2
    ELSE IF c \in {"ZWSP", "KELVIN"} THEN 3
    ELSE 1

\* The bytes of a &str, each marked as a leading or a continuation byte.
RECURSIVE Utf8(_)
Utf8(t) ==
    IF t = <<>> THEN <<>>
    ELSE IF Len(t) = 1 THEN <<"lead">> \o [k \in 1..(Utf8Width(t[1]) - 1) |-> "cont"]
    ELSE LET half == Len(t) \div 2
         IN  Utf8(SubSeq(t, 1, half)) \o Utf8(SubSeq(t, half + 1, Len(t)))

\* str::len: the number of bytes.
str_len(t) == Len(Utf8(t))

\* text.chars().count(): the number of bytes that do not continue a scalar value.
chars_count(t) ==
    LET bytes == Utf8(t)
    IN  Cardinality({ k \in 1..Len(bytes) : bytes[k] # "cont" })

\* char::is_whitespace: the Unicode White_Space property.
is_whitespace(c) == c \in {" ", "TAB", "LF", "NBSP"}

\* The regex crate's Unicode \w.
IsWordChar(c) ==
    \/ c \in LowerSet \/ c \in UpperSet \/ c \in DigitSet \/ c = "_"
    \/ c \in {"e_acute", "E_acute", "dotless_i", "long_s", "KELVIN"}

\* Case-sensitive matching: no folding at all.
SimpleFold_CaseSensitive(c) == c

\* Unicode simple case folding, which (?i) matches under.
SimpleFold(c) ==
    IF c \in UpperSet THEN LowerOf[c]
    ELSE IF c = "KELVIN" THEN "k"
    ELSE IF c = "long_s" THEN "s"
    ELSE IF c = "E_acute" THEN "e_acute"
    ELSE c

(***************************************************************************)
(* Text scorer: urgency_regex() and noise_regex().  Both patterns have the *)
(* shape (?i)\b(w1|...|wn)\b; compiling them is deterministic, so the two  *)
(* OnceLock cells always hold the same automaton and are not state here.   *)
(***************************************************************************)
UrgencyWords == { <<"u", "r", "g", "e", "n", "t">>,
                  <<"a", "s", "a", "p">>,
                  <<"c", "r", "i", "t", "i", "c", "a", "l">>,
                  <<"e", "m", "e", "r", "g", "e", "n", "c", "y">>,
                  <<"i", "m", "m", "e", "d", "i", "a", "t", "e", "l", "y">>,
                  <<"n", "o", "w">> }
NoiseWords == { <<"h", "e", "l", "l", "o">>,
                <<"t", "h", "a", "n", "k", "s">>,
                <<"l", "o", "l">>,
                <<"h", "a", "h", "a">>,
                <<"h", "i">>,
                <<"o", "k">>,
                <<"h", "e", "y">>,
                <<"s", "u", "r", "e">> }

\* A pattern without the \b assertions: every position passes.
IsWordBoundary_Always(t, p) == TRUE

\* \b at offset p (0..Len(t)): exactly one side of the offset is a word character.
IsWordBoundary(t, p) ==
    (p >= 1 /\ IsWordChar(t[p])) # (p < Len(t) /\ IsWordChar(t[p + 1]))

\* The literal w, under (?i), matches t at offset p.
MatchesAt(t, p, w) ==
    /\ p + Len(w) <= Len(t)
    /\ \A k \in 1..Len(w) : SimpleFold(t[p + k]) = w[k]

\* Regex::is_match for (?i)\b(w1|...|wn)\b: some offset starts a match.
is_match(alternatives, t) ==
    \E p \in 0..Len(t) :
        /\ IsWordBoundary(t, p)
        /\ \E w \in alternatives :
              MatchesAt(t, p, w) /\ IsWordBoundary(t, p + Len(w))

urgency_regex_is_match(t) == is_match(UrgencyWords, t)
noise_regex_is_match(t) == is_match(NoiseWords, t)

(***************************************************************************)
(* Text scorer: calculate_weight, in thousandths.                          *)
(***************************************************************************)
Base == 500
LengthDivisor == 500
LengthCap == 200
QuestionBonus == 150
UrgencyBonus == 200
NoisePenalty == -300
ClampMin == 0
ClampMax == 1000

Min(a, b) == IF a <= b THEN a ELSE b

\* A length bonus taken from the byte length of the text.
length_bonus_Bytes(t) == Min((str_len(t) * 1000) \div LengthDivisor, LengthCap)

length_bonus(t) == Min((chars_count(t) * 1000) \div LengthDivisor, LengthCap)

question_bonus(t) ==
    IF \E i \in 1..Len(t) : t[i] = "?" THEN QuestionBonus ELSE 0

urgency_bonus(t) == IF urgency_regex_is_match(t) THEN UrgencyBonus ELSE 0

\* A penalty applied once per noise word of the list that matches.
noise_penalty_Stacking(t) ==
    NoisePenalty * Cardinality({ w \in NoiseWords : is_match({w}, t) })

noise_penalty(t) == IF noise_regex_is_match(t) THEN NoisePenalty ELSE 0

result(t) ==
    Base + length_bonus(t) + question_bonus(t) + urgency_bonus(t) + noise_penalty(t)

\* No clamp at all.
clamp_None(x) == x

\* f64::clamp(0.0, 1.0)
clamp(x) == IF x < ClampMin THEN ClampMin ELSE IF x > ClampMax THEN ClampMax ELSE x

calculate_weight(t) == clamp(result(t))

(***************************************************************************)
(* Text scorer: word_count.                                                *)
(***************************************************************************)
\* str::split(char::is_whitespace): the pieces between one whitespace
\* character (or the start) and the next (or the end), empty ones included.
Split(t) ==
    LET cuts == {0, Len(t) + 1} \cup { i \in 1..Len(t) : is_whitespace(t[i]) }
        cut(k) == CHOOSE c \in cuts : Cardinality({ d \in cuts : d < c }) = k - 1
    IN  [k \in 1..(Cardinality(cuts) - 1) |-> SubSeq(t, cut(k) + 1, cut(k + 1) - 1)]

NonEmpty(piece) == piece # <<>>

\* A split that keeps the empty pieces.
split_whitespace_KeepEmpty(t) == Split(t)

\* str::split_whitespace: the non-empty pieces.
split_whitespace(t) == SelectSeq(Split(t), NonEmpty)

word_count(t) == Len(split_whitespace(t))

(***************************************************************************)
(* Text scorer: the input texts.  A text is made of at most MaxPieces      *)
(* pieces followed by a run of '.' that brings its length to the edges of  *)
(* the length bonus (100 code points) and of the upper clamp (75).         *)
(***************************************************************************)
MaxPieces == 2

IsThisUrgent == <<"I", "s", " ", "t", "h", "i", "s", " ", "u", "r", "g", "e", "n", "t", "?">>
HeyThanks == <<"h", "e", "y", " ", "t", "h", "a", "n", "k", "s">>
ABC == <<"a", " ", "b", " ", " ", "c">>
Shellout == <<"s", "h", "e", "l", "l", "o", "u", "t">>

Pieces ==
    { <<"u", "r", "g", "e", "n", "t">>,
      <<"U", "R", "G", "E", "N", "T">>,
      <<"U", "r", "g", "e", "n", "t">>,
      <<"n", "o", "w">>,
      <<"h", "i">>,
      IsThisUrgent, HeyThanks, ABC, Shellout,
      <<"h", "dotless_i">>, <<"o", "KELVIN">>,
      <<" ">>, <<"TAB">>, <<"NBSP">>, <<"ZWSP">>,
      <<"?">>, <<"_">>, <<"s">>, <<"e_acute">> }

\* 71 and 72 '.' after "now?" give 75 and 76 code points, 97 after "now" gives 100.
FillLens == {0, 71, 72, 97}

Fill(n) == [k \in 1..n |-> "."]

RECURSIVE Concat(_)
Concat(ps) == IF ps = <<>> THEN <<>> ELSE Head(ps) \o Concat(Tail(ps))

Inputs ==
    { Concat(ps) \o Fill(n) :
        ps \in UNION { [1..k -> Pieces] : k \in 0..MaxPieces }, n \in FillLens }

TextIdle ==
    /\ text = <<>>
    /\ tpc = "input"
    /\ rawSum = 0
    /\ weight = 0
    /\ urgencyHit = FALSE
    /\ noiseHit = FALSE
    /\ words = 0

\* The tokenizer at rest, while the scorer is exercised.
TokIdle ==
    /\ bundleOk = TRUE
    /\ panicTexts = {}
    /\ once = "incomplete"
    /\ table = Uninit
    /\ alive = TRUE
    /\ pc = [t \in Threads |-> "idle"]
    /\ arg = [t \in Threads |-> <<>>]
    /\ ret = [t \in Threads |-> 0]
    /\ outcome = [t \in Threads |-> "none"]
    /\ initRuns = 0
    /\ built = 0
    /\ calls = 0
    /\ returned = [s \in TokTexts |-> {}]
    /\ sawPanic = [t \in Threads |-> FALSE]

TextInit ==
    /\ text \in Inputs
    /\ tpc = "input"
    /\ rawSum = 0
    /\ weight = 0
    /\ urgencyHit = FALSE
    /\ noiseHit = FALSE
    /\ words = 0

\* The host calls calculate_weight(text).
CallCalculateWeight ==
    /\ tpc = "input"
    /\ tpc' = "weighed"
    /\ urgencyHit' = urgency_regex_is_match(text)
    /\ noiseHit' = noise_regex_is_match(text)
    /\ rawSum' = result(text)
    /\ weight' = calculate_weight(text)
    /\ UNCHANGED <<text, words>>

\* The host calls word_count(text).
CallWordCount ==
    /\ tpc = "input"
    /\ tpc' = "counted"
    /\ words' = word_count(text)
    /\ UNCHANGED <<text, rawSum, weight, urgencyHit, noiseHit>>

Init == TokInit /\ TextIdle

Next ==
    \/ \E t \in Threads : \E s \in TokTexts : Call(t, s) /\ UNCHANGED textVars
    \/ \E t \in Threads : GetEncoding(t) /\ UNCHANGED textVars
    \/ \E t \in Threads : InitEncoding(t) /\ UNCHANGED textVars
    \/ \E t \in Threads : Encode(t) /\ UNCHANGED textVars
    \/ \E t \in Threads : Return(t) /\ UNCHANGED textVars

Spec == Init /\ [][Next]_vars

InitText == TokIdle /\ TextInit

NextText ==
    \/ CallCalculateWeight /\ UNCHANGED tokVars
    \/ CallWordCount /\ UNCHANGED tokVars

SpecText == InitText /\ [][NextText]_vars

(***************************************************************************)
(* Vocabulary of the properties.                                           *)
(***************************************************************************)
\* The values count_tokens has handed back, or is about to, for text s.
ValuesFor(s) ==
    returned[s] \cup { ret[t] : t \in { u \in Threads : pc[u] = "done" /\ arg[u] = s } }

\* The maximal runs of word characters of t, each given by its first offset.
RunStarts(t) ==
    { i \in 1..Len(t) : IsWordChar(t[i]) /\ (i = 1 \/ ~IsWordChar(t[i - 1])) }

RunEnd(t, i) ==
    CHOOSE j \in i..Len(t) :
        /\ \A k \in i..j : IsWordChar(t[k])
        /\ (j = Len(t) \/ ~IsWordChar(t[j + 1]))

\* t holds one of the listed words as a whole word, letter case aside.
HasWholeWord(t, listed) ==
    \E i \in RunStarts(t) :
        [k \in 1..(RunEnd(t, i) - i + 1) |-> SimpleFold(t[i + k - 1])] \in listed

AsciiUpper(t) == [k \in 1..Len(t) |-> IF t[k] \in LowerSet THEN UpperOf[t[k]] ELSE t[k]]
AsciiLower(t) == [k \in 1..Len(t) |-> IF t[k] \in UpperSet THEN LowerOf[t[k]] ELSE t[k]]

\* Unicode upper- and lower-casing of the scalar values of the model
\* (U+0131 upper-cases to "I", U+017F to "S", U+212A lower-cases to "k").
UnicodeUpper(t) ==
    [k \in 1..Len(t) |->
        IF t[k] \in LowerSet THEN UpperOf[t[k]]
        ELSE IF t[k] = "dotless_i" THEN "I"
        ELSE IF t[k] = "long_s" THEN "S"
        ELSE IF t[k] = "e_acute" THEN "E_acute"
        ELSE t[k]]
UnicodeLower(t) ==
    [k \in 1..Len(t) |->
        IF t[k] \in UpperSet THEN LowerOf[t[k]]
        ELSE IF t[k] = "KELVIN" THEN "k"
        ELSE IF t[k] = "E_acute" THEN "e_acute"
        ELSE t[k]]

HasQuestionMark(t) == \E i \in 1..Len(t) : t[i] = "?"

\* clamp(0.5 + min(codepoints / 500, 0.2) + q + u + n, 0, 1), in thousandths.
WeightFormula(t) ==
    LET bonus == (Len(t) * 1000) \div 500
        sum == 500 + (IF bonus < 200 THEN bonus ELSE 200)
                   + (IF HasQuestionMark(t) THEN 150 ELSE 0)
                   + (IF HasWholeWord(t, UrgencyWords) THEN 200 ELSE 0)
                   - (IF HasWholeWord(t, NoiseWords) THEN 300 ELSE 0)
    IN  IF sum < 0 THEN 0 ELSE IF sum > 1000 THEN 1000 ELSE sum

\* The number of maximal runs of characters that are not whitespace.
NonWhitespaceRuns(t) ==
    Cardinality({ i \in 1..Len(t) :
                     /\ t[i] \notin {" ", "TAB", "LF", "NBSP"}
                     /\ (i = 1 \/ t[i - 1] \in {" ", "TAB", "LF", "NBSP"}) })

(***************************************************************************)
(* Properties of the tokenizer (checked under Spec).                       *)
(***************************************************************************)
\* C1: a panic raised while encoding is caught inside count_tokens: the call
\* returns 0, the process stays alive and the published table stays in place,
\* and a call that starts after a caught panic runs normally (on a text that
\* encodes, it returns that text's token count).
C1_EncodePanicCaught ==
    /\ alive
    /\ \A t \in Threads :
          /\ pc[t] # "unwound"
          /\ (pc[t] = "done" /\ outcome[t] = "encodePanic")
                => (ret[t] = 0 /\ once = "complete" /\ table = Cl100kBase)
          /\ (pc[t] = "done" /\ bundleOk /\ arg[t] \in panicTexts) => ret[t] = 0
          /\ (pc[t] = "done" /\ sawPanic[t] /\ bundleOk /\ arg[t] \notin panicTexts)
                => (outcome[t] = "ok" /\ ret[t] = EncodeOrdinaryLen(Cl100kBase, arg[t]))

\* C1 witness: after a caught encode panic, a later call has returned a count.
C1_Witness ==
    \E t \in Threads :
        pc[t] = "done" /\ sawPanic[t] /\ outcome[t] = "ok" /\ ret[t] > 0

\* C2: over any interleaving, the table is stored in ENCODING at most once;
\* the cell is complete exactly when that store has happened and then holds the
\* constructed table; no two threads run the closure at once; every call that
\* encodes reads the completed cell; and when construction succeeds the closure
\* runs once, in the first call to get there, before any call returns.
C2_InitialisedOnce ==
    /\ built <= 1
    /\ (once = "complete") <=> (built = 1)
    /\ table = (IF built = 1 THEN Cl100kBase ELSE Uninit)
    /\ Cardinality({ t \in Threads : pc[t] = "init" }) <= 1
    /\ (once = "running") <=> (\E t \in Threads : pc[t] = "init")
    /\ bundleOk => initRuns <= 1
    /\ \A t \in Threads :
          /\ pc[t] = "encode" => (once = "complete" /\ table = Cl100kBase)
          /\ (bundleOk /\ pc[t] = "done") => (built = 1 /\ initRuns = 1)

\* C2 witness: two calls are in flight, both past get_encoding, after a single
\* construction.
C2_Witness ==
    /\ calls = 2
    /\ pc[1] = "encode" /\ pc[2] = "encode"
    /\ built = 1 /\ initRuns = 1

\* C3: a failure of table construction is never turned into a value returned
\* by the count_tokens call that triggered it.
C3_ConstructionFailureNotReturned ==
    \A t \in Threads : ~(pc[t] = "done" /\ outcome[t] = "initPanic")

\* C4: all calls of count_tokens on the same text return the same count,
\* whichever of them initialised the table and whatever ran in between.
C4_Deterministic ==
    \A s \in TokTexts : Cardinality(ValuesFor(s)) <= 1

\* C4 witness: a text that was counted before is counted again, to a count
\* that is not zero.
C4_Witness ==
    \E t \in Threads :
        pc[t] = "done" /\ returned[arg[t]] # {} /\ ret[t] > 0

(***************************************************************************)
(* Properties of the text scorer (checked under SpecText).                 *)
(***************************************************************************)
\* C5: calculate_weight returns a value in [0.0, 1.0] for every text.
C5_WeightInUnitInterval ==
    tpc = "weighed" => (0 <= weight /\ weight <= 1000)

\* C5 witness: a text whose sum exceeds 1.0 and is clamped to 1.0.
C5_Witness ==
    tpc = "weighed" /\ rawSum > 1000 /\ weight = 1000

\* C6: calculate_weight equals clamp(0.5 + min(codepoints/500, 0.2) + q + u + n,
\* 0, 1), with q = 0.15 iff the text has a '?', u = 0.2 iff it has an urgency
\* word, n = -0.3 iff it has a noise word, each evaluated on its own and applied
\* at most once.
C6_WeightFormula ==
    tpc = "weighed" => weight = WeightFormula(text)

\* C6 witness: "hey thanks", two noise words, penalised by 0.3 once.
C6_Witness ==
    tpc = "weighed" /\ text = HeyThanks /\ weight = 220

\* C7, as stated: calculate_weight("Is this urgent?") returns 0.85.
C7_Original ==
    (tpc = "weighed" /\ text = IsThisUrgent) => weight = 850

\* C7, amended: calculate_weight("Is this urgent?") returns 0.88: base 0.5,
\* length bonus 15/500 = 0.03, question bonus 0.15, urgency bonus 0.2, and no
\* noise penalty.
C7_IsThisUrgent ==
    (tpc = "weighed" /\ text = IsThisUrgent) =>
        /\ weight = 880
        /\ rawSum = 880
        /\ urgencyHit /\ ~noiseHit

\* C7 witness: calculate_weight was applied to "Is this urgent?".
C7_Witness ==
    tpc = "weighed" /\ text = IsThisUrgent

\* C8, as stated: the urgency and noise adjustments are triggered only by a
\* listed word standing as a whole word, and changing the letter case of the
\* text never changes whether they are applied.
C8_Original ==
    tpc = "weighed" =>
        /\ urgencyHit = HasWholeWord(text, UrgencyWords)
        /\ noiseHit = HasWholeWord(text, NoiseWords)
        /\ \A v \in {UnicodeUpper(text), UnicodeLower(text)} :
              /\ urgency_regex_is_match(v) = urgencyHit
              /\ noise_regex_is_match(v) = noiseHit

\* C8, amended: the urgency and noise adjustments are triggered only by a
\* listed word standing as a whole word, and changing the case of the ASCII
\* letters of the text never changes whether they are applied.
C8_WholeWordAsciiCase ==
    tpc = "weighed" =>
        /\ urgencyHit = HasWholeWord(text, UrgencyWords)
        /\ noiseHit = HasWholeWord(text, NoiseWords)
        /\ \A v \in {AsciiUpper(text), AsciiLower(text)} :
              /\ urgency_regex_is_match(v) = urgencyHit
              /\ noise_regex_is_match(v) = noiseHit

\* C8 witness: "shellout", which holds "hello" inside a longer word, was scored
\* without the noise penalty.
C8_Witness ==
    tpc = "weighed" /\ text = Shellout /\ ~noiseHit /\ weight = 516

\* C9: word_count returns the number of maximal runs of non-whitespace
\* characters.
C9_WordCount ==
    tpc = "counted" => words = NonWhitespaceRuns(text)

\* C9 witness: word_count("a b  c") = 3.
C9_Witness ==
    tpc = "counted" /\ text = ABC /\ words = 3

\* C10: the sum before the clamp is never below 0.2, so the returned weight is
\* in [0.2, 1.0] and the lower clamp never changes it; the upper clamp changes
\* the result only for a text of more than 75 code points that has a '?', has
\* an urgency word and has no noise word.
C10_ClampOnlyAbove ==
    tpc = "weighed" =>
        /\ rawSum >= 200
        /\ 200 <= weight /\ weight <= 1000
        /\ rawSum <= 1000 => weight = rawSum
        /\ weight # rawSum =>
              /\ Len(text) > 75
              /\ HasQuestionMark(text)
              /\ urgencyHit
              /\ ~noiseHit

\* C10 witness: a text for which the upper clamp changed the result.
C10_Witness ==
    tpc = "weighed" /\ weight # rawSum

====
